---- MODULE Spec2Model ----
(***************************************************************************)
(* The resumable, budget-bounded crawler of tg-ticket-bot:                 *)
(*   http/fetch-client.ts   (budgeted fetcher: counter, page cache, retry) *)
(*   queues/job-queue.ts    (JobQueue)                                     *)
(*   storage/kv-storage.ts  (KVStorage: checkpoint and seen shows)         *)
(*   scrapers/main-scraper.ts (scrapeShows, scrapeDay)                     *)
(*   scrapers/date-finder.ts  (findDatesWithEvents)                        *)
(* One action is one run-to-completion step of the JavaScript event loop:  *)
(* a macrotask (a timer callback, the completion of a network fetch) with  *)
(* the promise continuations it releases.  The continuation of             *)
(* `await rateLimit()` is the one microtask that is kept as a step of its  *)
(* own, because synchronous code of the caller runs between the two; while *)
(* such a microtask is pending no macrotask runs.                          *)
(***************************************************************************)
EXTENDS Integers, Sequences, FiniteSets, TLC

(***************************************************************************)
(* Bounds of the model.                                                    *)
(***************************************************************************)
MaxBudget == 5      \* value given to MAX_SUBREQUESTS
MaxDates  == 2      \* calendar days 1..MaxDates, calendar pages of at most MaxDates entries
MaxCache  == 2      \* value given to MAX_CACHE_ENTRIES
MaxShows  == 2      \* a new invocation starts only while the checkpoint holds at most MaxShows records
MaxCalls  == 1      \* direct fetchWithRetry calls in flight at once (FetchSpec)
MaxBatch  == 1      \* shows parseShowsFromHtml takes from one document on the fast path
MaxRows   == 6      \* length of the list scrapeShows hands to the scheduled handler
MaxMonths == 2      \* months the month crawler walks, and shows it finds in one month

(***************************************************************************)
(* SCRAPER_CONFIG and the other constants of the program.                  *)
(***************************************************************************)
MAX_SUBREQUESTS     == MaxBudget   \* 50 and 20 in config.ts, 40 in scraper.ts
MAX_RETRIES         == 3           \* scraper.ts; config.ts gives 1 and 2
MAX_CONCURRENT_JOBS == 1
BATCH_SIZE          == 10          \* index.ts, scheduled: rows per insert
MAX_NOTIFICATIONS   == 5           \* index.ts, scheduled: Math.min(newShows.length, 5)
CHUNK_SIZES         == {1, 3}      \* the values config.ts gives SCRAPER_CONFIG.CHUNK_SIZE
MAX_CACHE_ENTRIES   == MaxCache    \* 5 and 10 in config.ts
FRESH_HOURS         == 4           \* `ageInHours > 4` in loadScraperState
Today               == 1           \* getCurrentDateString(): the first of the days

Days == 1..MaxDates
\* `${BASE_URL}/afisha/${day}`: the calendar page of startDate and the day page
\* of the same day are one URL.
Url(day) == day
Urls == {Url(d) : d \in Days}

Min(a, b) == IF a < b THEN a ELSE b

RECURSIVE Range(_)
Range(s) == IF s = <<>> THEN {} ELSE {Head(s)} \cup Range(Tail(s))

RemoveAt(s, i) == [k \in 1..(Len(s) - 1) |-> IF k < i THEN s[k] ELSE s[k + 1]]

\* Array.prototype.slice(a, b) on 0-based indices a <= b.
Slice(s, a, b) == SubSeq(s, a + 1, Min(b, Len(s)))

\* A filter that keeps every element.
FilterOutNothing(s, excluded) == s

\* Array.prototype.filter(x => !excluded.includes(x))
RECURSIVE FilterOut(_, _)
FilterOut(s, excluded) ==
  IF s = <<>> THEN <<>>
  ELSE IF Head(s) \in excluded THEN FilterOut(Tail(s), excluded)
       ELSE <<Head(s)>> \o FilterOut(Tail(s), excluded)

\* findDatesWithEvents keeps the first MAX_EVENTS entries that have a link.
MAX_EVENTS == MaxDates

\* A calendar page: its li.future entries in document order.  An entry is
\* the day of its link, NoPattern when the link holds no YYYY-MM-DD, or
\* NoAnchor when it has no link.
NoAnchor == -1

NoPattern == 0

CalendarPages == UNION {[1..n -> NoAnchor..MaxDates] : n \in 0..(MAX_EVENTS + 1)}

\* getDayFromUrl: the date in the url, or the current date.
GetDayFromUrl(link) == IF link = NoPattern THEN Today ELSE link

\* The each() callback without the test of count.
RECURSIVE FirstEventsUncapped(_, _)
FirstEventsUncapped(page, count) ==
  IF page = <<>> THEN <<>>
  ELSE IF Head(page) = NoAnchor THEN FirstEventsUncapped(Tail(page), count)
  ELSE <<GetDayFromUrl(Head(page))>> \o FirstEventsUncapped(Tail(page), count + 1)

\* The each() callback over the entries: datesWithEvents.push(day), count++.
RECURSIVE FirstEvents(_, _)
FirstEvents(page, count) ==
  IF page = <<>> \/ count >= MAX_EVENTS THEN <<>>
  ELSE IF Head(page) = NoAnchor THEN FirstEvents(Tail(page), count)
  ELSE <<GetDayFromUrl(Head(page))>> \o FirstEvents(Tail(page), count + 1)

\* The list findDatesWithEvents returns for a page: sorted, as pushed.
FindDatesWithEvents(page) == SortSeq(FirstEvents(page, 0), <)

\* The lists findDatesWithEvents can return when its fetch succeeds.
Calendars == {FindDatesWithEvents(page) : page \in CalendarPages}

\* parseShowsFromHtml of a day page: extraction is a function of the page;
\* the page of day d lists one show, whose id is taken to be d.
ShowsOnDay(day) == <<day>>

NoState == <<>>

VARIABLES
  subrequestCount, pageCache, cacheEntryCount,      \* fetch-client.ts module state
  kvState, kvShows,                                 \* the KV namespace: 'scraper:state', 'show:<id>'
  pc, kvStorage, previousState, allDatesToScrape,   \* scrapeShows locals
  processedDates, timeoutReached, ret,
  timer,                                            \* the timeoutPromise timer of scrapeShows
  wfc,                                              \* waitForCompletion's promise
  queue, running, results, completedJobs,           \* JobQueue fields
  jobProcessor,
  cachedShowIds,                                    \* KVStorage.cachedShowIds
  tasks,                                            \* fetchWithRetry calls in flight
  CHUNK_SIZE,                                       \* SCRAPER_CONFIG.CHUNK_SIZE of this deployment
  netAttempts, startCount, lastCall, ops,           \* history of the invocation
  found, discovery,
  kvCall,                                           \* the KVStorage method call that completed last
  parseCall,                                        \* the parseShowsFromHtml call made last
  sched                                             \* a run of the worker's scheduled handler, or of the month crawler

fetchVars == <<subrequestCount, pageCache, cacheEntryCount>>
kvVars    == <<kvState, kvShows>>
orchVars  == <<pc, kvStorage, previousState, allDatesToScrape, processedDates,
               timeoutReached, ret, timer, wfc, cachedShowIds>>
queueVars == <<queue, running, results, completedJobs, jobProcessor>>
outerVars == <<parseCall, sched>>
histVars  == <<netAttempts, startCount, lastCall, ops, found, discovery, kvCall, outerVars>>
vars == <<fetchVars, kvVars, orchVars, queueVars, tasks, CHUNK_SIZE, histVars>>

(***************************************************************************)
(* Helpers over the state.                                                 *)
(***************************************************************************)
\* previousState?.completedShows || [], previousState?.processedDates || []
PrevShows(prev)     == IF prev = NoState THEN <<>> ELSE prev[1].completedShows
PrevProcessed(prev) == IF prev = NoState THEN <<>> ELSE prev[1].processedDates
PrevPending(prev)   == IF prev = NoState THEN <<>> ELSE prev[1].pendingJobs

Job(day) == [url |-> Url(day), day |-> day]

RECURSIVE JobDays(_)
JobDays(js) == IF js = <<>> THEN <<>> ELSE <<Head(js).day>> \o JobDays(Tail(js))

RECURSIVE JobsOf(_)
JobsOf(days) == IF days = <<>> THEN <<>> ELSE <<Job(Head(days))>> \o JobsOf(Tail(days))

\* One fetchWithRetry call in flight.  phase "cache": rateLimit() has passed
\* and the continuation of `await rateLimit()` is queued; "net": attempt i is
\* on the network; "delay": attempt i failed and the RATE_LIMIT_DELAY timer runs.
NewTask(kind, url, day, proc) ==
  [kind |-> kind, url |-> url, day |-> day, proc |-> proc,
   phase |-> "cache", i |-> 0, lastError |-> 0]

\* lastCall: the call of fetchWithRetry that settled last, with its outcome,
\* the attempts it made, the error it threw and the cacheEntryCount it found.
NoCall == [url |-> 0, outcome |-> "none", attempts |-> 0, err |-> 0, entries |-> 0]

\* kvCall: the method of KVStorage that was called last, how its KV operation
\* went ("ok", "throws", "malformed" for a value JSON.parse rejects, "unused"
\* when none was made), whether it raised to its caller, and what it returned.
NoKvCall == [method |-> "none", kv |-> "unused", raised |-> FALSE, value |-> "none"]

\* No document has been parsed.
NoParseCall == [outcome |-> "none"]

\* The scheduled handler is not running.
NoRun == [phase |-> "idle"]

\* A microtask is pending: no timer callback and no network completion runs
\* before it.
NoMicrotask == \A k \in DOMAIN tasks : tasks[k].phase # "cache"
(***************************************************************************)
(* fetch-client.ts                                                         *)
(***************************************************************************)
\* rateLimit letting one more call through at the limit.
RateLimitPassesAtLimit(cnt) == cnt <= MAX_SUBREQUESTS

\* rateLimit(): passes, and then increments the counter, while the counter
\* is below MAX_SUBREQUESTS; throws 'Subrequest limit reached' otherwise.
RateLimitPasses(cnt) == cnt < MAX_SUBREQUESTS

\* A cache write that never evicts.
CacheAfterWriteNoEviction(url) ==
  [cache |-> pageCache \cup {url}, count |-> cacheEntryCount + 1]

\* The cache write after a successful attempt: wholesale eviction once
\* cacheEntryCount has reached MAX_CACHE_ENTRIES, then the insertion.
CacheAfterWrite(url) ==
  IF cacheEntryCount >= MAX_CACHE_ENTRIES
  THEN [cache |-> {url}, count |-> 1]
  ELSE [cache |-> pageCache \cup {url}, count |-> cacheEntryCount + 1]

\* A loop that goes round once more.
MayRetryOnceMore(i) == i <= MAX_RETRIES

\* The loop condition `i < MAX_RETRIES` after i attempts have been made.
MayRetry(i) == i < MAX_RETRIES

\* The error fetchWithRetry throws once the loop is over: lastError.
\* Errors of network attempts are identified by the attempt's number.
ThrownAfterRetries(task) == task.lastError

\* A results array that keeps the shows of the last job only.
PushResultsKeepsLast(rs, shows) == shows

\* this.results.push(...shows)
PushResults(rs, shows) == rs \o shows

(***************************************************************************)
(* job-queue.ts                                                            *)
(***************************************************************************)
\* processNext that starts a job whatever the number running.
ProcessNextUnlimited(q, proc) ==
  IF q.queue = <<>> \/ q.cnt >= MAX_SUBREQUESTS
  THEN q
  ELSE [queue   |-> Tail(q.queue),
        running |-> q.running + 1,
        cnt     |-> q.cnt + 1,
        started |-> Append(q.started,
                           NewTask("job", Head(q.queue).url, Head(q.queue).day, proc))]

\* processNext that takes the job added last.
ProcessNextTakesLast(q, proc) ==
  IF q.running >= MAX_CONCURRENT_JOBS \/ q.queue = <<>> \/ q.cnt >= MAX_SUBREQUESTS
  THEN q
  ELSE [queue   |-> SubSeq(q.queue, 1, Len(q.queue) - 1),
        running |-> q.running + 1,
        cnt     |-> q.cnt + 1,
        started |-> Append(q.started,
                           NewTask("job", q.queue[Len(q.queue)].url,
                                   q.queue[Len(q.queue)].day, proc))]

\* processNext() up to its first await, on a queue state
\* q = [queue, running, cnt, started]: the guard, running++, the dequeue of
\* queue[0], and the synchronous head of processJob -> fetchWithRetry ->
\* rateLimit (which passes: the guard has just seen the counter below the
\* limit).
ProcessNext(q, proc) ==
  IF q.running >= MAX_CONCURRENT_JOBS \/ q.queue = <<>> \/ q.cnt >= MAX_SUBREQUESTS
  THEN q
  ELSE [queue   |-> Tail(q.queue),
        running |-> q.running + 1,
        cnt     |-> q.cnt + 1,
        started |-> Append(q.started,
                           NewTask("job", Head(q.queue).url, Head(q.queue).day, proc))]

\* add(job): push, then processNext().
Add(q, job, proc) == ProcessNext([q EXCEPT !.queue = Append(q.queue, job)], proc)

\* The loops of scrapeShows that add jobs: each add is guarded by
\* getSubrequestCount() < MAX_SUBREQUESTS, read after the previous add.
RECURSIVE EnqueueAll(_, _, _)
EnqueueAll(js, q, proc) ==
  IF js = <<>> THEN q
  ELSE IF q.cnt >= MAX_SUBREQUESTS THEN q
  ELSE EnqueueAll(Tail(js), Add(q, Head(js), proc), proc)

\* Lines 139-177 without pending jobs: the chunk of datesToProcess, its
\* first two days added before the others.
EnqueueChunk(datesToProcess, q, proc) ==
  LET datesToScrape == Slice(datesToProcess, 0, CHUNK_SIZE)
      priorityDays  == Slice(datesToScrape, 0, 2)
      regularDays   == Slice(datesToScrape, 2, Len(datesToScrape))
  IN  EnqueueAll(JobsOf(regularDays), EnqueueAll(JobsOf(priorityDays), q, proc), proc)

\* setJobProcessor(processor), as scrapeShows uses it: the jobs that
\* processNext starts from now on are run by `processor` instead of
\* processJob.
SetJobProcessor(processor) == jobProcessor' = processor

\* jobQueue.getCompletedJobs().forEach(job => { if (!processedDates.includes(job.day)) push })
RECURSIVE AddProcessed(_, _)
AddProcessed(pd, cj) ==
  IF cj = <<>> THEN pd
  ELSE AddProcessed(IF Head(cj).day \in Range(pd) THEN pd ELSE Append(pd, Head(cj).day),
                    Tail(cj))

(***************************************************************************)
(* kv-storage.ts                                                           *)
(***************************************************************************)
\* loadScraperState without the check of the state's age.
LoadScraperStateAnyAge ==
  IF kvState = NoState THEN NoState
  ELSE <<[kvState[1] EXCEPT !.ageHours = 0]>>

\* loadScraperState() on a fresh KVStorage (stateCache is null): null when
\* the key is absent or the state is older than 4 hours.  scrapeShows never
\* reads lastUpdated of the state it has loaded: the loaded copy carries age 0.
LoadScraperState ==
  IF kvState = NoState THEN NoState
  ELSE IF kvState[1].ageHours > FRESH_HOURS THEN NoState
  ELSE <<[kvState[1] EXCEPT !.ageHours = 0]>>

\* A ScrapingState that drops the first of the dates.
MakeStateWithoutFirstDate(dates, pd, pending, shows, cnt) ==
  [ageHours |-> 0, allDatesToScrape |-> IF dates = <<>> THEN <<>> ELSE Tail(dates),
   processedDates |-> pd,
   pendingJobs |-> pending, completedShows |-> shows, subrequestCount |-> cnt]

\* The ScrapingState built by scrapeShows; lastUpdated is Date.now(), kept
\* as the hours elapsed since.
MakeState(dates, pd, pending, shows, cnt) ==
  [ageHours |-> 0, allDatesToScrape |-> dates, processedDates |-> pd,
   pendingJobs |-> pending, completedShows |-> shows, subrequestCount |-> cnt]

Op(kind, by, st, doneDays, pending, cnt, pd, dates) ==
  [kind |-> kind, by |-> by, state |-> st, done |-> doneDays,
   pending |-> pending, cnt |-> cnt, processed |-> pd, dates |-> dates]
(***************************************************************************)
(* main-scraper.ts: scrapeShows                                            *)
(***************************************************************************)
\* isComplete without the comparison of the two lengths.
IsCompleteWithoutDates(tr, cnt, pending, pd, dates) ==
  /\ ~tr
  /\ cnt < MAX_SUBREQUESTS
  /\ pending = <<>>

IsComplete(tr, cnt, pending, pd, dates) ==
  /\ ~tr
  /\ cnt < MAX_SUBREQUESTS
  /\ pending = <<>>
  /\ Len(pd) = Len(dates)

\* scrapeDay that processes every parsed show.
ShowsToProcessAll(parsed, seen) == parsed

\* scrapeDay with KV storage: the parsed shows for which showExists is
\* false, each stored by saveShow before the next one is looked up.
RECURSIVE ShowsToProcess(_, _)
ShowsToProcess(parsed, seen) ==
  IF parsed = <<>> THEN <<>>
  ELSE IF Head(parsed) \in seen THEN ShowsToProcess(Tail(parsed), seen)
  ELSE <<Head(parsed)>> \o ShowsToProcess(Tail(parsed), seen \cup {Head(parsed)})

\* allNewShows and allShows: [...previous, ...(timeoutReached ? [...won,
\* ...results] : won)].
AllShows(prev, tr, won, rs) == PrevShows(prev) \o (IF tr THEN won \o rs ELSE won)

\* Whether the bookkeeping saves the state when the crawl is not complete.
SavesWhenIncomplete(tr, cnt) == tr \/ cnt >= MAX_SUBREQUESTS

\* Lines 233-285, from the resolution of Promise.race to the first await
\* after it.  pd, cj, rs, pending, cnt: processedDates, the queue's completed
\* jobs, results and pending jobs and the counter at that moment; tr:
\* timeoutReached; won: the value the race resolved with.  kvs0 is the
\* checkpoint key as it is when nothing is written here; raced holds the value
\* of a put that the timeout callback has issued in the same turn and not
\* awaited: the two puts are in flight together and either may land last.
Bookkeep(prev, kvOn, pd, cj, rs, pending, cnt, tr, won, dates, kvs0, raced, ops0) ==
  LET pd2      == AddProcessed(pd, cj)
      allShows == AllShows(prev, tr, won, rs)
      complete == IsComplete(tr, cnt, pending, pd2, dates)
      state    == MakeState(dates, pd2, pending, allShows, cnt)
      done     == Range(JobDays(cj))
  IN
  /\ processedDates' = pd2
  /\ ret' = allShows
  /\ IF kvOn /\ complete
     THEN /\ pc' = "clearing"
          /\ kvState' = kvs0
          /\ ops' = ops0
     ELSE IF kvOn /\ SavesWhenIncomplete(tr, cnt)
     THEN /\ pc' = "returned"
          /\ kvState' \in {<<state>>} \cup raced
          /\ ops' = Append(ops0, Op("save", "main", <<state>>, done, pending, cnt, pd2, dates))
     ELSE /\ pc' = "returned"
          /\ kvState' = kvs0
          /\ ops' = Append(ops0, Op("skip", "main", NoState, done, pending, cnt, pd2, dates))

\* The variables the continuation of a settled fetchWithRetry call may write.
settleVars == <<subrequestCount, tasks, pc, allDatesToScrape, processedDates,
                timeoutReached, ret, timer, wfc, queue, running, results,
                completedJobs, jobProcessor, kvState, ops, kvShows, cachedShowIds>>

\* Lines 125-231: from the date list to `await Promise.race`.  The jobs a
\* JobQueue starts inside add() run the queue's own processJob: the processor
\* is replaced only afterwards.  waitForCompletion's first checkQueueStatus
\* runs synchronously and resolves at once when nothing was started.
AfterDates(prev, kvOn, dates, cnt, tsk, ops0) ==
  IF dates = <<>>
  THEN /\ pc' = "returned"
       /\ ret' = PrevShows(prev)
       /\ subrequestCount' = cnt
       /\ tasks' = tsk
       /\ ops' = ops0
       /\ UNCHANGED <<allDatesToScrape, processedDates, timeoutReached, timer, wfc,
                      queue, running, results, completedJobs, jobProcessor, kvState>>
  ELSE
    LET datesToProcess == FilterOut(dates, Range(PrevProcessed(prev)))
        q0 == [queue |-> <<>>, running |-> 0, cnt |-> cnt, started |-> <<>>]
        E  == IF PrevPending(prev) # <<>>
              THEN EnqueueAll(PrevPending(prev), q0, "processJob")
              ELSE EnqueueChunk(datesToProcess, q0, "processJob")
    IN
    /\ subrequestCount' = E.cnt
    /\ tasks' = tsk \o E.started
    /\ queue' = E.queue
    /\ running' = E.running
    /\ results' = <<>>
    /\ completedJobs' = <<>>
    /\ SetJobProcessor("scrapeDay")
    /\ allDatesToScrape' = dates
    /\ timeoutReached' = FALSE
    /\ timer' = "pending"
    /\ IF E.queue = <<>> /\ E.running = 0
       THEN /\ wfc' = "resolved"
            /\ Bookkeep(prev, kvOn, PrevProcessed(prev), <<>>, <<>>, <<>>, E.cnt,
                        FALSE, <<>>, dates, kvState, {}, ops0)
       ELSE /\ wfc' = "polling"
            /\ pc' = "racing"
            /\ processedDates' = PrevProcessed(prev)
            /\ ret' = <<>>
            /\ kvState' = kvState
            /\ ops' = ops0

\* findDatesWithEvents after its fetchWithRetry call has settled: the sorted
\* days of the calendar page, or [] when the call threw (the catch), and
\* scrapeShows from there.
SettleDisc(t, res, cnt) ==
  \E cal \in (IF res = "ok" THEN Calendars ELSE {<<>>}) :
    /\ AfterDates(previousState, kvStorage, cal, cnt, RemoveAt(tasks, t), ops)
    /\ UNCHANGED <<kvShows, cachedShowIds>>

\* A job after its fetchWithRetry call has settled: the rest of the
\* processor, then processNext's try / catch / finally.  processJob rethrows
\* a budget error, and processNext then leaves results and completedJobs
\* alone; scrapeDay catches every error and returns [], and with KV storage
\* keeps only the shows that showExists does not know, saving each.
SettleJob(t, res, cnt) ==
  LET task   == tasks[t]
      job    == [url |-> task.url, day |-> task.day]
      thrown == task.proc = "processJob" /\ res = "budget"
      parsed == IF res = "ok" THEN ShowsOnDay(task.day) ELSE <<>>
      viaKV  == task.proc = "scrapeDay" /\ kvStorage
      fresh  == ShowsToProcess(parsed, kvShows \cup cachedShowIds)
      shows  == IF viaKV THEN fresh ELSE parsed
      q1 == ProcessNext([queue |-> queue, running |-> running - 1, cnt |-> cnt,
                         started |-> <<>>], jobProcessor)
  IN
  /\ results' = IF thrown THEN results ELSE PushResults(results, shows)
  /\ completedJobs' = IF thrown THEN completedJobs ELSE Append(completedJobs, job)
  /\ kvShows' = IF viaKV THEN kvShows \cup Range(fresh) ELSE kvShows
  /\ cachedShowIds' = IF viaKV THEN cachedShowIds \cup Range(fresh) ELSE cachedShowIds
  /\ queue' = q1.queue
  /\ running' = q1.running
  /\ subrequestCount' = q1.cnt
  /\ tasks' = RemoveAt(tasks, t) \o q1.started
  /\ UNCHANGED <<pc, allDatesToScrape, processedDates, timeoutReached, ret, timer,
                 wfc, jobProcessor, kvState, ops>>

\* A call made directly (FetchSpec): the caller only takes the outcome.
SettleCall(t, res, cnt) ==
  /\ subrequestCount' = cnt
  /\ tasks' = RemoveAt(tasks, t)
  /\ UNCHANGED <<pc, allDatesToScrape, processedDates, timeoutReached, ret, timer,
                 wfc, queue, running, results, completedJobs, jobProcessor,
                 kvState, ops, kvShows, cachedShowIds>>

\* res: "ok", "budget" (a budget error) or "error" (any other error).
Settle(t, res, cnt) ==
  CASE tasks[t].kind = "disc" -> SettleDisc(t, res, cnt)
    [] tasks[t].kind = "job"  -> SettleJob(t, res, cnt)
    [] OTHER                  -> SettleCall(t, res, cnt)
(***************************************************************************)
(* Steps of a fetchWithRetry call in flight.                               *)
(***************************************************************************)
NextMicrotask(t) ==
  /\ t \in DOMAIN tasks
  /\ tasks[t].phase = "cache"
  /\ \A k \in 1..(t - 1) : tasks[k].phase # "cache"

callerVars == <<kvStorage, previousState, CHUNK_SIZE, startCount, found, discovery, kvCall, outerVars>>

\* `url in pageCache`: the cached body is returned.
FetchCacheHit(t) ==
  /\ NextMicrotask(t)
  /\ tasks[t].url \in pageCache
  /\ lastCall' = [url |-> tasks[t].url, outcome |-> "hit", attempts |-> 0, err |-> 0,
                  entries |-> cacheEntryCount]
  /\ Settle(t, "ok", subrequestCount)
  /\ UNCHANGED <<pageCache, cacheEntryCount, netAttempts, callerVars>>

\* One pass through the head of the loop body: subrequestCount++ and fetch().
Attempt(t) ==
  /\ subrequestCount' = subrequestCount + 1
  /\ netAttempts' = netAttempts + 1
  /\ tasks' = [tasks EXCEPT ![t].phase = "net", ![t].i = tasks[t].i + 1]
  /\ UNCHANGED <<pageCache, cacheEntryCount, kvVars, orchVars, queueVars,
                 CHUNK_SIZE, startCount, lastCall, ops, found, discovery, kvCall, outerVars>>

\* Cache miss: the loop is entered.
FetchAttempt(t) ==
  /\ NextMicrotask(t)
  /\ tasks[t].url \notin pageCache
  /\ Attempt(t)

\* The attempt on the network answers with an ok response.
FetchOk(t) ==
  /\ t \in DOMAIN tasks
  /\ tasks[t].phase = "net"
  /\ NoMicrotask
  /\ pageCache' = CacheAfterWrite(tasks[t].url).cache
  /\ cacheEntryCount' = CacheAfterWrite(tasks[t].url).count
  /\ lastCall' = [url |-> tasks[t].url, outcome |-> "ok", attempts |-> tasks[t].i, err |-> 0,
                  entries |-> cacheEntryCount]
  /\ Settle(t, "ok", subrequestCount)
  /\ UNCHANGED <<netAttempts, callerVars>>

\* The attempt fails (network error or !response.ok): lastError is set and
\* the RATE_LIMIT_DELAY timer started, also after the last attempt.
FetchFail(t) ==
  /\ t \in DOMAIN tasks
  /\ tasks[t].phase = "net"
  /\ NoMicrotask
  /\ tasks' = [tasks EXCEPT ![t].phase = "delay", ![t].lastError = tasks[t].i]
  /\ UNCHANGED <<fetchVars, kvVars, orchVars, queueVars, CHUNK_SIZE, histVars>>

\* fetch() throws the runtime's 'Too many subrequests': rethrown at once.
FetchTooMany(t) ==
  /\ t \in DOMAIN tasks
  /\ tasks[t].phase = "net"
  /\ NoMicrotask
  /\ lastCall' = [url |-> tasks[t].url, outcome |-> "tooMany", attempts |-> tasks[t].i,
                  err |-> tasks[t].i, entries |-> cacheEntryCount]
  /\ Settle(t, "budget", subrequestCount)
  /\ UNCHANGED <<pageCache, cacheEntryCount, netAttempts, callerVars>>

\* The delay is over and the loop goes round.
FetchRetry(t) ==
  /\ t \in DOMAIN tasks
  /\ tasks[t].phase = "delay"
  /\ NoMicrotask
  /\ MayRetry(tasks[t].i)
  /\ Attempt(t)

\* The delay is over and the loop has ended: `throw lastError`.
FetchGiveUp(t) ==
  /\ t \in DOMAIN tasks
  /\ tasks[t].phase = "delay"
  /\ NoMicrotask
  /\ ~MayRetry(tasks[t].i)
  /\ lastCall' = [url |-> tasks[t].url, outcome |-> "failed", attempts |-> tasks[t].i,
                  err |-> ThrownAfterRetries(tasks[t]), entries |-> cacheEntryCount]
  /\ Settle(t, "error", subrequestCount)
  /\ UNCHANGED <<pageCache, cacheEntryCount, netAttempts, callerVars>>

(***************************************************************************)
(* Steps of scrapeShows.                                                   *)
(***************************************************************************)
\* scrapeShows(env) from its call to its first suspension that waits for the
\* network or a timer: loadScraperState, the counter, and then either the
\* early return, the call of findDatesWithEvents, or (dates taken from the
\* checkpoint) everything up to `await Promise.race`.
RestoredCountKeepsCounter(prev) ==
  IF prev # NoState THEN prev[1].subrequestCount ELSE subrequestCount

\* setSubrequestCount(previousState.subrequestCount) when a state was loaded,
\* resetSubrequestCount() otherwise: the counter scrapeShows starts with.
RestoredCount(prev) == IF prev # NoState THEN prev[1].subrequestCount ELSE 0

ReturnsAtLimitNever(prev, cnt) == FALSE

\* Lines 86-89: with shows in the loaded state and the counter at the limit
\* scrapeShows returns previousState.completedShows at once.
ReturnsAtLimit(prev, cnt) ==
  prev # NoState /\ Len(prev[1].completedShows) > 0 /\ cnt >= MAX_SUBREQUESTS

StartInvocation ==
  /\ pc = "idle"
  /\ Len(PrevShows(kvState)) <= MaxShows
  /\ LET kvOn == kvStorage
         prev == IF kvOn THEN LoadScraperState ELSE NoState
         cnt0 == RestoredCount(prev)
     IN
       /\ kvStorage' = kvOn
       /\ previousState' = prev
       /\ found' = IF kvOn /\ kvState # NoState
                   THEN IF kvState[1].ageHours > FRESH_HOURS THEN "stale" ELSE "fresh"
                   ELSE "none"
       /\ startCount' = cnt0
       /\ netAttempts' = 0
       /\ cachedShowIds' = {}
       /\ UNCHANGED <<pageCache, cacheEntryCount, kvShows, CHUNK_SIZE, lastCall, kvCall, outerVars>>
       /\ IF ReturnsAtLimit(prev, cnt0)
          THEN /\ pc' = "returned"
               /\ ret' = prev[1].completedShows
               /\ subrequestCount' = cnt0
               /\ ops' = <<>>
               /\ discovery' = FALSE
               /\ UNCHANGED <<tasks, allDatesToScrape, processedDates, timeoutReached,
                              timer, wfc, queueVars, kvState>>
          ELSE IF prev # NoState /\ Len(prev[1].allDatesToScrape) > 0
          THEN /\ discovery' = FALSE
               /\ AfterDates(prev, kvOn, prev[1].allDatesToScrape, cnt0, <<>>, <<>>)
          ELSE /\ discovery' = TRUE
               /\ IF RateLimitPasses(cnt0)
                  THEN /\ pc' = "discovering"
                       /\ subrequestCount' = cnt0 + 1
                       /\ tasks' = <<NewTask("disc", Url(Today), Today, "none")>>
                       /\ ops' = <<>>
                       /\ UNCHANGED <<allDatesToScrape, processedDates, timeoutReached,
                                      ret, timer, wfc, queueVars, kvState>>
                  ELSE AfterDates(prev, kvOn, <<>>, cnt0, <<>>, <<>>)

\* The callback of the setTimeout of timeoutPromise.  It is never cleared, so
\* it also runs when the race is already over.
OrchTimeout ==
  /\ timer = "pending"
  /\ NoMicrotask
  /\ timer' = "fired"
  /\ timeoutReached' = TRUE
  /\ LET snap == MakeState(allDatesToScrape, processedDates, queue,
                           PrevShows(previousState) \o results, subrequestCount)
         ops1 == IF kvStorage
                 THEN Append(ops, Op("save", "timer", <<snap>>, Range(JobDays(completedJobs)),
                                     queue, subrequestCount, processedDates, allDatesToScrape))
                 ELSE ops
         kvs1 == IF kvStorage THEN <<snap>> ELSE kvState
     IN IF pc = "racing"
        THEN Bookkeep(previousState, kvStorage, processedDates, completedJobs, results,
                      queue, subrequestCount, TRUE, PrevShows(previousState),
                      allDatesToScrape, kvs1, IF kvStorage THEN {<<snap>>} ELSE {}, ops1)
        ELSE /\ kvState' = kvs1
             /\ ops' = ops1
             /\ UNCHANGED <<pc, ret, processedDates>>
  /\ UNCHANGED <<fetchVars, kvShows, kvStorage, previousState, allDatesToScrape, wfc,
                 cachedShowIds, queueVars, tasks, CHUNK_SIZE, netAttempts, startCount,
                 lastCall, found, discovery, kvCall, outerVars>>

\* waitForCompletion's promise resolves with this.results.
WfcResolves ==
  /\ wfc' = "resolved"
  /\ IF pc = "racing"
     THEN Bookkeep(previousState, kvStorage, processedDates, completedJobs, results,
                   queue, subrequestCount, timeoutReached, results, allDatesToScrape,
                   kvState, {}, ops)
     ELSE UNCHANGED <<pc, ret, processedDates, kvState, ops>>
  /\ UNCHANGED <<fetchVars, kvShows, kvStorage, previousState, allDatesToScrape,
                 timeoutReached, timer, cachedShowIds, queueVars, tasks, CHUNK_SIZE,
                 netAttempts, startCount, lastCall, found, discovery, kvCall, outerVars>>

\* checkQueueStatus finds the queue empty and nothing running.
WfcDrained ==
  /\ wfc = "polling"
  /\ NoMicrotask
  /\ queue = <<>> /\ running = 0
  /\ WfcResolves

\* checkQueueStatus with a deadline check that waits for the running jobs.
WfcDeadlineWaitsForJobs ==
  /\ wfc = "polling"
  /\ NoMicrotask
  /\ queue # <<>> /\ running = 0
  /\ WfcResolves

\* checkQueueStatus finds Date.now() - startTime >= MAX_WAIT_TIME - 2.
WfcDeadline ==
  /\ wfc = "polling"
  /\ NoMicrotask
  /\ ~(queue = <<>> /\ running = 0)
  /\ WfcResolves

\* waitForCompletion's own MAX_WAIT_TIME timer: it was set after the timer of
\* timeoutPromise with the same delay, and runs after it.
WfcTimeout ==
  /\ wfc = "polling"
  /\ NoMicrotask
  /\ timer = "fired"
  /\ WfcResolves

\* The complete branch after `await kvStorage.getShowCount()`: the count key
\* is written by saveShows and clearAllShows only, so the count read is 0;
\* clearAllShows (which empties cachedShowIds and leaves the show keys) when
\* 0 >= allShows.length, then clearScraperState, then the return.
FinishClear ==
  /\ pc = "clearing"
  /\ NoMicrotask
  /\ pc' = "returned"
  /\ cachedShowIds' = IF 0 >= Len(ret) THEN {} ELSE cachedShowIds
  /\ kvState' = NoState
  /\ ops' = Append(ops, Op("clear", "main", NoState, Range(JobDays(completedJobs)),
                           queue, subrequestCount, processedDates, allDatesToScrape))
  /\ UNCHANGED <<fetchVars, kvShows, kvStorage, previousState, allDatesToScrape,
                 processedDates, timeoutReached, ret, timer, wfc, queueVars, tasks,
                 CHUNK_SIZE, netAttempts, startCount, lastCall, found, discovery, kvCall, outerVars>>

\* The runtime ends the invocation after scrapeShows has returned: timers and
\* fetches still pending are dropped.  The isolate, with the module state of
\* fetch-client.ts, is kept for the next invocation or evicted.
EndInvocation ==
  /\ pc = "returned"
  /\ NoMicrotask
  /\ pc' = "idle"
  /\ \E evict \in BOOLEAN :
       /\ subrequestCount' = IF evict THEN 0 ELSE subrequestCount
       /\ pageCache' = IF evict THEN {} ELSE pageCache
       /\ cacheEntryCount' = IF evict THEN 0 ELSE cacheEntryCount
  /\ previousState' = NoState
  /\ allDatesToScrape' = <<>>
  /\ processedDates' = <<>>
  /\ timeoutReached' = FALSE
  /\ ret' = <<>>
  /\ timer' = "unset"
  /\ wfc' = "none"
  /\ cachedShowIds' = {}
  /\ queue' = <<>>
  /\ running' = 0
  /\ results' = <<>>
  /\ completedJobs' = <<>>
  /\ jobProcessor' = "processJob"
  /\ tasks' = <<>>
  /\ netAttempts' = 0
  /\ startCount' = 0
  /\ lastCall' = NoCall
  /\ ops' = <<>>
  /\ found' = "none"
  /\ discovery' = FALSE
  /\ UNCHANGED <<kvVars, kvStorage, CHUNK_SIZE, kvCall, outerVars>>

\* Time passes between two invocations: up to the end of the freshness
\* window, and then beyond it.
Elapse ==
  /\ pc = "idle"
  /\ kvState # NoState
  /\ kvState[1].ageHours <= FRESH_HOURS
  /\ kvState' = <<[kvState[1] EXCEPT !.ageHours =
                     IF kvState[1].ageHours < FRESH_HOURS THEN FRESH_HOURS
                     ELSE FRESH_HOURS + 1]>>
  /\ UNCHANGED <<fetchVars, kvShows, orchVars, queueVars, tasks, CHUNK_SIZE, histVars>>

\* scrapeShows is not running: its locals, the JobQueue and the history of
\* the invocation are in their initial state.
NotRunning ==
  /\ pc = "idle"
  /\ previousState = NoState
  /\ allDatesToScrape = <<>>
  /\ processedDates = <<>>
  /\ timeoutReached = FALSE
  /\ ret = <<>>
  /\ timer = "unset"
  /\ wfc = "none"
  /\ queue = <<>>
  /\ running = 0
  /\ results = <<>>
  /\ completedJobs = <<>>
  /\ jobProcessor = "processJob"
  /\ cachedShowIds = {}
  /\ tasks = <<>>
  /\ netAttempts = 0
  /\ startCount = 0
  /\ lastCall = NoCall
  /\ kvCall = NoKvCall
  /\ parseCall = NoParseCall
  /\ sched = NoRun
  /\ ops = <<>>
  /\ found = "none"
  /\ discovery = FALSE

\* A new deployment: fresh module state, empty KV namespace; env.SCRAPER_KV is
\* bound or not, and CHUNK_SIZE is one of the configured values.
Init ==
  /\ subrequestCount = 0
  /\ pageCache = {}
  /\ cacheEntryCount = 0
  /\ kvState = NoState
  /\ kvShows = {}
  /\ kvStorage \in BOOLEAN
  /\ CHUNK_SIZE \in CHUNK_SIZES
  /\ NotRunning

FetchStep ==
  \E t \in 1..(MAX_CONCURRENT_JOBS + MaxCalls) :
    \/ FetchCacheHit(t)
    \/ FetchAttempt(t)
    \/ FetchOk(t)
    \/ FetchFail(t)
    \/ FetchTooMany(t)
    \/ FetchRetry(t)
    \/ FetchGiveUp(t)

Next ==
  \/ StartInvocation
  \/ FetchStep
  \/ OrchTimeout
  \/ WfcDrained
  \/ WfcDeadline
  \/ WfcTimeout
  \/ FinishClear
  \/ EndInvocation
  \/ Elapse

Spec == Init /\ [][Next]_vars

(***************************************************************************)
(* fetchWithRetry on its own: a caller that calls fetchWithRetry(url), from *)
(* any state the module variables of fetch-client.ts can be in.            *)
(***************************************************************************)
\* The urls a caller of fetchWithRetry asks for: one more than the cache may
\* hold.
Pages == 1..(MAX_CACHE_ENTRIES + 1)

\* The states of the page cache: cacheEntryCount counts the writes since the
\* last eviction, at least one per key, and the eviction resets it once it
\* has reached MAX_CACHE_ENTRIES.
CacheStates ==
  {c \in [cache : SUBSET Pages, count : 0..MAX_CACHE_ENTRIES] :
     /\ Cardinality(c.cache) <= c.count
     /\ c.cache = {} => c.count = 0}

\* fetchWithRetry(url) up to `await rateLimit()`: rateLimit throws, and the
\* call rejects, or it increments the counter and the call goes on in a
\* microtask.
HarnessCall(url) ==
  /\ pc = "idle"
  /\ Len(tasks) < MaxCalls
  /\ IF RateLimitPasses(subrequestCount)
     THEN /\ subrequestCount' = subrequestCount + 1
          /\ tasks' = Append(tasks, NewTask("call", url, url, "none"))
          /\ lastCall' = lastCall
     ELSE /\ lastCall' = [url |-> url, outcome |-> "limit", attempts |-> 0, err |-> 0,
                          entries |-> cacheEntryCount]
          /\ UNCHANGED <<subrequestCount, tasks>>
  /\ UNCHANGED <<pageCache, cacheEntryCount, kvVars, orchVars, queueVars, CHUNK_SIZE,
                 netAttempts, startCount, ops, found, discovery, kvCall, outerVars>>

FetchInit ==
  /\ subrequestCount \in 0..MAX_SUBREQUESTS
  /\ \E c \in CacheStates : pageCache = c.cache /\ cacheEntryCount = c.count
  /\ kvState = NoState
  /\ kvShows = {}
  /\ kvStorage = FALSE
  /\ CHUNK_SIZE \in CHUNK_SIZES
  /\ NotRunning

Caller == \E url \in Pages : HarnessCall(url)

FetchNext ==
  \/ Caller
  \/ FetchStep

FetchSpec == FetchInit /\ [][FetchNext]_vars

(***************************************************************************)
(* A JobQueue on its own: add(job) called at any moment, between the       *)
(* completions and failures of the jobs it runs.                           *)
(***************************************************************************)
\* jobQueue.add(job), with at most MaxDates jobs waiting.
QueueAdd(day) ==
  /\ pc = "idle"
  /\ Len(queue) < MaxDates
  /\ LET q == Add([queue |-> queue, running |-> running, cnt |-> subrequestCount,
                   started |-> <<>>], Job(day), jobProcessor)
     IN /\ queue' = q.queue
        /\ running' = q.running
        /\ subrequestCount' = q.cnt
        /\ tasks' = tasks \o q.started
  /\ UNCHANGED <<pageCache, cacheEntryCount, kvVars, orchVars, results, completedJobs,
                 jobProcessor, CHUNK_SIZE, histVars>>

\* The add loops of scrapeShows on a new JobQueue, for a sorted list of
\* dates still to process.
QueueAddChunk(datesToProcess) ==
  /\ pc = "idle"
  /\ queue = <<>> /\ running = 0 /\ results = <<>> /\ completedJobs = <<>>
  /\ LET q == EnqueueChunk(datesToProcess,
                           [queue |-> <<>>, running |-> 0, cnt |-> subrequestCount,
                            started |-> <<>>], jobProcessor)
     IN /\ queue' = q.queue
        /\ running' = q.running
        /\ subrequestCount' = q.cnt
        /\ tasks' = tasks \o q.started
  /\ UNCHANGED <<pageCache, cacheEntryCount, kvVars, orchVars, results, completedJobs,
                 jobProcessor, CHUNK_SIZE, histVars>>

QueueInit == Init /\ kvStorage = FALSE

AddJob == \E day \in Days : QueueAdd(day)

QueueNext ==
  \/ \E n \in 2..(MaxDates + 1) :
       \E datesToProcess \in {d \in [1..n -> Days] : \A k \in 1..(n - 1) : d[k] <= d[k + 1]} :
         QueueAddChunk(datesToProcess)
  \/ AddJob
  \/ FetchStep

QueueSpec == QueueInit /\ [][QueueNext]_vars

(***************************************************************************)
(* A KVStorage on its own: its methods called in any order on a namespace  *)
(* whose get, put and delete may throw, and whose 'scraper:state' key may  *)
(* hold text that is not JSON.                                             *)
(***************************************************************************)
\* A value of 'scraper:state' that JSON.parse rejects.
Malformed == [text |-> "{"]

IsMalformed(v) == "ageHours" \notin DOMAIN v

\* kv.get, kv.put, kv.delete complete or throw.
KvOutcomes == {"ok", "throws"}

\* How the body of a try block ends.
Returned(v) == [raised |-> FALSE, value |-> v]

Threw == [raised |-> TRUE, value |-> "error"]

\* A catch block that lets the error through.
CatchRethrows(r, fallback) == r

\* catch (error) { console.error(...); return fallback; }
Catch(r, fallback) == IF r.raised THEN Returned(fallback) ELSE r

\* The try block of loadScraperState on a new KVStorage (stateCache is null).
LoadBody(o) ==
  IF o = "throws" THEN Threw
  ELSE IF kvState # NoState /\ IsMalformed(kvState[1]) THEN Threw
  ELSE Returned(LoadScraperState)

\* What the KV operation of a loadScraperState call has met.
LoadMet(o) ==
  IF o = "ok" /\ kvState # NoState /\ IsMalformed(kvState[1]) THEN "malformed" ELSE o

\* The checkpoints a caller saves.
SavedStates ==
  {MakeState(dates, pd, <<>>, <<>>, 0) : dates \in {<<1>>, <<1, 2>>}, pd \in {<<>>, <<1>>}}

kvHarnessVars == <<fetchVars, pc, kvStorage, allDatesToScrape, processedDates,
                   timeoutReached, ret, timer, wfc, queueVars, tasks, CHUNK_SIZE,
                   netAttempts, startCount, lastCall, ops, found, discovery, outerVars>>

\* new KVStorage(env.SCRAPER_KV) and previousState = await loadScraperState().
KvLoad(o) ==
  /\ pc = "idle"
  /\ LET r == Catch(LoadBody(o), NoState)
     IN /\ kvCall' = [method |-> "loadScraperState", kv |-> LoadMet(o),
                      raised |-> r.raised, value |-> r.value]
        /\ previousState' = IF r.raised THEN previousState ELSE r.value
  /\ cachedShowIds' = {}
  /\ UNCHANGED <<kvState, kvShows, kvHarnessVars>>

KvSave(state, o) ==
  /\ pc = "idle"
  /\ LET r == Catch(IF o = "throws" THEN Threw ELSE Returned("void"), "void")
     IN kvCall' = [method |-> "saveScraperState", kv |-> o,
                   raised |-> r.raised, value |-> r.value]
  /\ kvState' = IF o = "ok" THEN <<state>> ELSE kvState
  /\ UNCHANGED <<kvShows, cachedShowIds, previousState, kvHarnessVars>>

KvClear(o) ==
  /\ pc = "idle"
  /\ LET r == Catch(IF o = "throws" THEN Threw ELSE Returned("void"), "void")
     IN kvCall' = [method |-> "clearScraperState", kv |-> o,
                   raised |-> r.raised, value |-> r.value]
  /\ kvState' = IF o = "ok" THEN NoState ELSE kvState
  /\ UNCHANGED <<kvShows, cachedShowIds, previousState, kvHarnessVars>>

\* saveShow: the id enters cachedShowIds before the put.
KvSaveShow(id, o) ==
  /\ pc = "idle"
  /\ LET r == Catch(IF o = "throws" THEN Threw ELSE Returned("void"), "void")
     IN kvCall' = [method |-> "saveShow", kv |-> o,
                   raised |-> r.raised, value |-> r.value]
  /\ cachedShowIds' = cachedShowIds \cup {id}
  /\ kvShows' = IF o = "ok" THEN kvShows \cup {id} ELSE kvShows
  /\ UNCHANGED <<kvState, previousState, kvHarnessVars>>

\* showExists: the in-memory set first, then the get.
KvShowExists(id, o) ==
  /\ pc = "idle"
  /\ IF id \in cachedShowIds
     THEN /\ kvCall' = [method |-> "showExists", kv |-> "unused",
                        raised |-> FALSE, value |-> TRUE]
          /\ cachedShowIds' = cachedShowIds
     ELSE LET r == Catch(IF o = "throws" THEN Threw ELSE Returned(id \in kvShows), FALSE)
          IN /\ kvCall' = [method |-> "showExists", kv |-> o,
                           raised |-> r.raised, value |-> r.value]
             /\ cachedShowIds' = IF o = "ok" /\ id \in kvShows
                                 THEN cachedShowIds \cup {id} ELSE cachedShowIds
  /\ UNCHANGED <<kvState, kvShows, previousState, kvHarnessVars>>

KvInit ==
  /\ subrequestCount = 0
  /\ pageCache = {}
  /\ cacheEntryCount = 0
  /\ kvState \in {NoState, <<Malformed>>}
  /\ kvShows = {}
  /\ kvStorage = TRUE
  /\ CHUNK_SIZE \in CHUNK_SIZES
  /\ NotRunning

LoadCall == \E o \in KvOutcomes : KvLoad(o)

SaveCall == \E state \in SavedStates, o \in KvOutcomes : KvSave(state, o)

ClearCall == \E o \in KvOutcomes : KvClear(o)

SaveShowCall == \E id \in Days, o \in KvOutcomes : KvSaveShow(id, o)

ShowExistsCall == \E id \in Days, o \in KvOutcomes : KvShowExists(id, o)

KvNext ==
  \/ LoadCall
  \/ SaveCall
  \/ ClearCall
  \/ SaveShowCall
  \/ ShowExistsCall

KvSpec == KvInit /\ [][KvNext]_vars

(***************************************************************************)
(* The merge of records on its own: the jobs of a chunk, all in flight in  *)
(* a JobQueue whose maxConcurrent admits them, complete in any order, and  *)
(* scrapeShows merges when the wait or its timer resolves the race.        *)
(***************************************************************************)
\* The checkpoints an invocation resumes from, by their completedShows.
PrevStates ==
  {NoState} \cup {<<MakeState(<<>>, <<>>, <<>>, shows, 0)>> : shows \in {<<1>>, <<2>>}}

MergeInit ==
  /\ subrequestCount = 0
  /\ pageCache = {}
  /\ cacheEntryCount = 0
  /\ kvState = NoState
  /\ kvShows = {}
  /\ kvStorage = FALSE
  /\ CHUNK_SIZE \in CHUNK_SIZES
  /\ pc = "racing"
  /\ previousState \in PrevStates
  /\ allDatesToScrape \in Calendars
  /\ processedDates = <<>>
  /\ timeoutReached = FALSE
  /\ ret = <<>>
  /\ timer = "pending"
  /\ wfc = "polling"
  /\ queue = <<>>
  /\ running = Len(allDatesToScrape)
  /\ results = <<>>
  /\ completedJobs = <<>>
  /\ jobProcessor = "processJob"
  /\ cachedShowIds = {}
  /\ tasks = [k \in DOMAIN allDatesToScrape |->
               [NewTask("job", Url(allDatesToScrape[k]), allDatesToScrape[k], "processJob")
                  EXCEPT !.phase = "net", !.i = 1]]
  /\ netAttempts = 0
  /\ startCount = 0
  /\ lastCall = NoCall
  /\ kvCall = NoKvCall
  /\ parseCall = NoParseCall
  /\ sched = NoRun
  /\ ops = <<>>
  /\ found = "none"
  /\ discovery = FALSE

mergeVars == <<fetchVars, kvVars, kvStorage, previousState, allDatesToScrape,
               processedDates, queue, jobProcessor, cachedShowIds, CHUNK_SIZE, histVars>>

\* processNext after `await this.processJob(job)` of job t.
JobCompletes(t) ==
  /\ pc = "racing"
  /\ t \in DOMAIN tasks
  /\ results' = PushResults(results, ShowsOnDay(tasks[t].day))
  /\ completedJobs' = Append(completedJobs, [url |-> tasks[t].url, day |-> tasks[t].day])
  /\ running' = running - 1
  /\ tasks' = RemoveAt(tasks, t)
  /\ UNCHANGED <<pc, timeoutReached, ret, timer, wfc, mergeVars>>

\* The wait resolves with this.results: all jobs are done.
MergeAfterWait ==
  /\ pc = "racing"
  /\ running = 0
  /\ pc' = "returned"
  /\ wfc' = "resolved"
  /\ ret' = AllShows(previousState, FALSE, results, results)
  /\ UNCHANGED <<timeoutReached, timer, running, results, completedJobs, tasks, mergeVars>>

\* The timer resolves the race with the previous records.
MergeAfterTimeout ==
  /\ pc = "racing"
  /\ pc' = "returned"
  /\ timer' = "fired"
  /\ timeoutReached' = TRUE
  /\ ret' = AllShows(previousState, TRUE, PrevShows(previousState), results)
  /\ UNCHANGED <<wfc, running, results, completedJobs, tasks, mergeVars>>

AnyJobCompletes == \E t \in 1..MaxDates : JobCompletes(t)

MergeNext ==
  \/ AnyJobCompletes
  \/ MergeAfterWait
  \/ MergeAfterTimeout

MergeSpec == MergeInit /\ [][MergeNext]_vars

(***************************************************************************)
(* html-parser.ts, hash-utils.ts, date-utils.ts: parseShowsFromHtml called *)
(* on any document, with SCRAPER_CONFIG.MINIMAL_HTML_PARSING set (the      *)
(* current config) or absent (the earlier config).                         *)
(***************************************************************************)
\* A .views-row node: title and url of its title link (0: empty or absent),
\* time (0: the .t1/.t3 spans are missing), the sold-out label, the ticket
\* link.
ListingNodes == [title : 0..1, url : 0..1, time : 0..1, soldOut : BOOLEAN, ticketUrl : 0..1]

\* maxShowsPerBatch: 5 or 10.
MaxShowsPerBatch(minimal) == IF minimal THEN MaxBatch ELSE 2 * MaxBatch

\* Documents with up to one listing more than the smaller batch.
Documents == UNION {[1..n -> ListingNodes] : n \in 0..(MaxBatch + 1)}

\* new Date(): the time of the call.
Clock(now) == [valid |-> TRUE, t |-> now, clock |-> TRUE]

\* extractDateTime: new Date(year, monthIndex, parseInt(day), hours, minutes)
\* is an Invalid Date when the day or the time is missing.
ExtractDateTime(node) == [valid |-> node.time # 0, t |-> node.time, clock |-> FALSE]

\* createShowId: the digest of `${url}_${datetime.toISOString()}`;
\* toISOString throws a RangeError on an Invalid Date.
CreateShowId(url, datetime) ==
  IF datetime.valid THEN Returned(<<url, datetime.t, datetime.clock>>) ELSE Threw

\* A content hash that leaves the title out.
ContentHashWithoutTitle(show) == <<show.datetime, show.soldOut, show.ticketUrl>>

\* calculateShowContentHash: the digest of the JSON text of title, datetime,
\* soldOut and ticketUrl.
CalculateShowContentHash(show) ==
  <<show.title, show.datetime, show.soldOut, show.ticketUrl>>

NoHash == <<>>

\* The show built for a node on the fast path and on the full path.
MinimalShow(node, now) ==
  [id |-> CreateShowId(node.url, Clock(now)).value, title |-> node.title, url |-> node.url,
   datetime |-> Clock(now), ticketUrl |-> 0, soldOut |-> FALSE, contentHash |-> NoHash]

FullShow(node) ==
  LET show == [id |-> CreateShowId(node.url, ExtractDateTime(node)).value,
               title |-> node.title, url |-> node.url,
               datetime |-> ExtractDateTime(node), ticketUrl |-> node.ticketUrl,
               soldOut |-> node.soldOut, contentHash |-> NoHash]
  IN [show EXCEPT !.contentHash = CalculateShowContentHash(show)]

\* The each() callback over the .views-row nodes: the result so far is r,
\* count shows have been pushed.
RECURSIVE ParseRows(_, _, _, _, _)
ParseRows(doc, minimal, now, count, r) ==
  IF doc = <<>> \/ count >= MaxShowsPerBatch(minimal) THEN Returned(r)
  ELSE LET node == Head(doc)
           has  == node.title # 0 /\ node.url # 0
       IN IF ~has THEN ParseRows(Tail(doc), minimal, now, count, r)
          ELSE IF minimal
          THEN ParseRows(Tail(doc), minimal, now, count + 1, Append(r, MinimalShow(node, now)))
          ELSE IF CreateShowId(node.url, ExtractDateTime(node)).raised THEN Threw
          ELSE ParseRows(Tail(doc), minimal, now, count + 1, Append(r, FullShow(node)))

ParseShowsFromHtml(doc, minimal, now) == ParseRows(doc, minimal, now, 0, <<>>)

parseVars == <<fetchVars, kvVars, orchVars, queueVars, tasks, CHUNK_SIZE,
               netAttempts, startCount, lastCall, ops, found, discovery, kvCall, sched>>

\* parseShowsFromHtml($, date) on a document, and on the same document
\* again at a later time.
Parse(doc, minimal) ==
  /\ parseCall.outcome = "none"
  /\ LET r == ParseShowsFromHtml(doc, minimal, 1)
     IN parseCall' = [outcome |-> IF r.raised THEN "raised" ELSE "returned",
                      doc |-> doc, minimal |-> minimal, shows |-> r.value]
  /\ UNCHANGED parseVars

ParseAgain ==
  /\ parseCall.outcome = "returned"
  /\ LET r == ParseShowsFromHtml(parseCall.doc, parseCall.minimal, 2)
     IN parseCall' = [outcome |-> "again", doc |-> parseCall.doc,
                      minimal |-> parseCall.minimal, shows |-> r.value,
                      first |-> parseCall.shows]
  /\ UNCHANGED parseVars

\* A returned show with its title, sold-out flag or ticket link changed,
\* and both hashed again.
Rehash(k, field, title, soldOut, ticketUrl) ==
  /\ parseCall.outcome = "returned"
  /\ k \in DOMAIN parseCall.shows
  /\ LET a == parseCall.shows[k]
         b == [a EXCEPT !.title = IF field = "title" THEN title ELSE @,
                        !.soldOut = IF field = "soldOut" THEN soldOut ELSE @,
                        !.ticketUrl = IF field = "ticketUrl" THEN ticketUrl ELSE @]
     IN /\ b # a
        /\ parseCall' = [outcome |-> "rehashed",
                         a |-> [show |-> a, id |-> CreateShowId(a.url, a.datetime),
                                hash |-> CalculateShowContentHash(a)],
                         b |-> [show |-> b, id |-> CreateShowId(b.url, b.datetime),
                                hash |-> CalculateShowContentHash(b)]]
  /\ UNCHANGED parseVars

ParseNext ==
  \/ \E doc \in Documents, minimal \in BOOLEAN : Parse(doc, minimal)
  \/ ParseAgain
  \/ \E k \in 1..(2 * MaxBatch), field \in {"title", "soldOut", "ticketUrl"},
        title \in 1..2, soldOut \in BOOLEAN, ticketUrl \in 0..1 :
       Rehash(k, field, title, soldOut, ticketUrl)

ParseInit == Init /\ kvStorage = FALSE /\ CHUNK_SIZE = 1

ParseSpec == ParseInit /\ [][ParseNext]_vars

(***************************************************************************)
(* index.ts, scheduled: one run of the cron handler.  The catalog is the   *)
(* shows table (id TEXT PRIMARY KEY); a show is its id.                    *)
(***************************************************************************)
ShowIds == 1..2

schedVars == <<fetchVars, kvVars, orchVars, queueVars, tasks, CHUNK_SIZE,
               netAttempts, startCount, lastCall, ops, found, discovery, kvCall, parseCall>>

\* The index the notification loop goes to after a send that failed: the
\* catch inside the loop logs, and the for statement goes on with i + 1.
AfterFailedSendStops(i, maxNotifications) == maxNotifications

AfterFailedSend(i, maxNotifications) == i + 1

\* A batch the table accepts: no id twice, no id already stored.
Insertable(batch, catalog) ==
  /\ Cardinality(Range(batch)) = Len(batch)
  /\ Range(batch) \cap catalog = {}

\* The handler leaves through `return`, the end of the try block or the
\* outer catch; `raised` records whether an exception left the handler.
Finished(run) == [run EXCEPT !.phase = "done"]

\* catch (error) { console.error('Error in scheduled job:', error) }: the
\* exception ends the run and does not leave the handler.
OuterCatch(run) == Finished([run EXCEPT !.raised = FALSE])

\* What follows the insert loop: the notification loop, or nothing.
AfterInserts(run) ==
  IF Len(run.newShows) > 0 /\ run.telegram
    THEN [run EXCEPT !.phase = "notifying", !.i = 0]
    ELSE Finished(run)

\* What follows the notification loop: the summary message, or nothing.
AfterNotifications(run) ==
  IF Len(run.newShows) > Min(Len(run.newShows), MAX_NOTIFICATIONS)
    THEN [run EXCEPT !.phase = "summary"]
    ELSE Finished(run)

\* scheduled up to `await scrapeShows()`: the select of the stored ids fails
\* (return, or an exception the outer catch takes) or gives existingIdMap.
SchedStart(catalog, telegram, selected) ==
  /\ sched = NoRun
  /\ sched' = [phase |-> IF selected THEN "scraping" ELSE "done",
               catalog0 |-> catalog, catalog |-> catalog,
               existingIdMap |-> IF selected THEN catalog ELSE {},
               telegram |-> telegram, shows |-> <<>>, newShows |-> <<>>, i |-> 0,
               inserts |-> <<>>, sent |-> <<>>, summary |-> "none", raised |-> FALSE]
  /\ UNCHANGED schedVars

\* scrapeShows() settles: it rejects (outer catch), or returns a list and the
\* handler builds newShows and showsToInsert from the shows whose id
\* existingIdMap does not hold.
SchedScrape(shows, rejected) ==
  /\ sched.phase = "scraping"
  /\ sched' = IF rejected THEN OuterCatch(sched)
              ELSE LET new == FilterOut(shows, sched.existingIdMap)
                       run == [sched EXCEPT !.shows = shows, !.newShows = new]
                   IN  IF new = <<>> THEN Finished(run)
                       ELSE [run EXCEPT !.phase = "inserting"]
  /\ UNCHANGED schedVars

\* One turn of the insert loop: supabase.from('shows').insert(batch) stores
\* the batch, answers with insertError, or throws into the catch of the loop.
SchedInsert(outcome) ==
  /\ sched.phase = "inserting"
  /\ LET batch == Slice(sched.newShows, sched.i, sched.i + BATCH_SIZE)
         run   == [sched EXCEPT !.inserts = Append(@, [batch |-> batch, outcome |-> outcome]),
                                !.catalog = IF outcome = "stored" THEN @ \cup Range(batch) ELSE @,
                                !.i = @ + BATCH_SIZE]
     IN  /\ outcome = "stored" => Insertable(batch, sched.catalog)
         /\ sched' = IF run.i < Len(run.newShows) THEN run ELSE AfterInserts(run)
  /\ UNCHANGED schedVars

\* One turn of the notification loop: telegram.sendMessage for newShows[i]
\* resolves, or rejects into the catch inside the loop.
SchedNotify(ok) ==
  /\ sched.phase = "notifying"
  /\ LET maxNotifications == Min(Len(sched.newShows), MAX_NOTIFICATIONS)
         next == IF ok THEN sched.i + 1 ELSE AfterFailedSend(sched.i, maxNotifications)
         run  == [sched EXCEPT !.sent = Append(@, [id |-> sched.newShows[sched.i + 1], ok |-> ok]),
                               !.i = next]
     IN  sched' = IF next < maxNotifications THEN run ELSE AfterNotifications(run)
  /\ UNCHANGED schedVars

\* The summary message for the shows past the limit, in its own try/catch.
SchedSummary(ok) ==
  /\ sched.phase = "summary"
  /\ sched' = Finished([sched EXCEPT !.summary = IF ok THEN "sent" ELSE "failed"])
  /\ UNCHANGED schedVars

\* handlers, notifySubscribers(show): findByShowId gives the subscribers or
\* throws into the outer catch; the loop sends to each chat in its own
\* try/catch.  oks[k] tells whether the send to the k-th subscriber resolves.
RECURSIVE NotifyLoop(_, _, _, _)
NotifyLoop(subscribers, oks, i, sent) ==
  IF i >= Len(subscribers) THEN sent
  ELSE NotifyLoop(subscribers, oks,
                  IF oks[i + 1] THEN i + 1 ELSE AfterFailedSend(i, Len(subscribers)),
                  Append(sent, [id |-> subscribers[i + 1], ok |-> oks[i + 1]]))

NotifySubscribers(subscribers, oks, listed) ==
  /\ sched = NoRun
  /\ sched' = [phase |-> "notified", subscribers |-> subscribers, listed |-> listed,
               sent |-> IF listed THEN NotifyLoop(subscribers, oks, 0, <<>>) ELSE <<>>,
               raised |-> FALSE]
  /\ UNCHANGED schedVars

SchedNext ==
  \/ \E subscribers \in UNION {[1..n -> ShowIds] : n \in 0..2},
        oks \in [1..2 -> BOOLEAN], listed \in BOOLEAN :
       NotifySubscribers(subscribers, oks, listed)
  \/ \E catalog \in SUBSET ShowIds, telegram \in BOOLEAN, selected \in BOOLEAN :
       SchedStart(catalog, telegram, selected)
  \/ \E shows \in UNION {[1..n -> ShowIds] : n \in 0..MaxRows}, rejected \in BOOLEAN : SchedScrape(shows, rejected)
  \/ \E outcome \in {"stored", "insertError", "threw"} : SchedInsert(outcome)
  \/ \E ok \in BOOLEAN : SchedNotify(ok)
  \/ \E ok \in BOOLEAN : SchedSummary(ok)

SchedSpec == ParseInit /\ [][SchedNext]_vars

(***************************************************************************)
(* scraper.ts, the month crawler: scrapeShows walks the months and hands   *)
(* each month's shows to saveShowsToDb.  The catalog maps an id to its row *)
(* (id is the primary key); a show is [id, title, dates].                  *)
(***************************************************************************)
NoRow == [title |-> 0, dates |-> 0]

\* One turn of the loop of saveShowsToDb: existingShows.find by title in the
\* rows selected before the loop, then insert, update of dates where
\* id = show.id, or nothing.  An insert of a stored id fails.
SaveShow(run, existingShows, show) ==
  LET sameTitle == SelectSeq(existingShows, LAMBDA r : r.title = show.title)
      row       == [title |-> show.title, dates |-> show.dates]
  IN  IF sameTitle = <<>>
        THEN IF run.catalog[show.id] = NoRow
               THEN [run EXCEPT !.catalog[show.id] = row]
               ELSE [run EXCEPT !.opsOk = FALSE]
      ELSE IF Head(sameTitle).dates # show.dates /\ run.catalog[show.id] # NoRow
        THEN [run EXCEPT !.catalog[show.id].dates = show.dates]
      ELSE run

RECURSIVE SaveShowsToDb(_, _, _)
SaveShowsToDb(run, existingShows, shows) ==
  IF shows = <<>> THEN run
  ELSE SaveShowsToDb(SaveShow(run, existingShows, Head(shows)), existingShows, Tail(shows))

\* scrapeShows is called with the catalog holding any rows.
LegacyStart(catalog) ==
  /\ sched = NoRun
  /\ sched' = [phase |-> "crawling", catalog0 |-> catalog, catalog |-> catalog,
               allShows |-> <<>>, months |-> 0, opsOk |-> TRUE, raised |-> FALSE]
  /\ UNCHANGED schedVars

\* One turn of the loop of scrapeShows with a month that has shows:
\* saveShowsToDb(monthShows), whose select fails or lists the stored rows in
\* some order, then allShows.push(...monthShows).
LegacyMonth(monthShows, order, selected) ==
  /\ sched.phase = "crawling"
  /\ sched.months < MaxMonths
  /\ LET stored == SelectSeq(order, LAMBDA id : sched.catalog[id] # NoRow)
         existingShows == [k \in DOMAIN stored |->
                             [id |-> stored[k], title |-> sched.catalog[stored[k]].title,
                              dates |-> sched.catalog[stored[k]].dates]]
         saved == IF selected THEN SaveShowsToDb(sched, existingShows, monthShows)
                  ELSE [sched EXCEPT !.opsOk = FALSE]
     IN  sched' = [saved EXCEPT !.allShows = @ \o monthShows, !.months = @ + 1]
  /\ UNCHANGED schedVars

\* The loop ends: no next month, a page without events, or a failed fetch.
LegacyReturn ==
  /\ sched.phase = "crawling"
  /\ sched' = [sched EXCEPT !.phase = "returned"]
  /\ UNCHANGED schedVars

LegacyNext ==
  \/ \E catalog \in [ShowIds -> {NoRow} \cup [title : 1..2, dates : 1..2]] : LegacyStart(catalog)
  \/ \E n \in 1..MaxMonths :
       \E monthShows \in [1..n -> [id : ShowIds, title : 1..2, dates : 1..2]],
          order \in {<<1, 2>>, <<2, 1>>}, selected \in BOOLEAN :
         LegacyMonth(monthShows, order, selected)
  \/ LegacyReturn

LegacySpec == ParseInit /\ [][LegacyNext]_vars

(***************************************************************************)
(* Repeated invocations with KV storage against a source that answers      *)
(* every fetch, with a checkpoint that stays fresh.                        *)
(***************************************************************************)
SourceAnswers ==
  \E t \in 1..(MAX_CONCURRENT_JOBS + MaxCalls) :
    \/ FetchCacheHit(t)
    \/ FetchAttempt(t)
    \/ FetchOk(t)

LiveInit == Init /\ kvStorage = TRUE

LiveNext ==
  \/ StartInvocation
  \/ SourceAnswers
  \/ OrchTimeout
  \/ WfcDrained
  \/ WfcDeadline
  \/ WfcTimeout
  \/ FinishClear
  \/ EndInvocation

\* The event loop runs what is ready, timers go off, and the scheduler
\* invokes scrapeShows again.
LiveSpec ==
  /\ LiveInit
  /\ [][LiveNext]_vars
  /\ WF_vars(StartInvocation)
  /\ WF_vars(SourceAnswers)
  /\ WF_vars(OrchTimeout)
  /\ WF_vars(WfcDrained)
  /\ WF_vars(WfcDeadline)
  /\ WF_vars(WfcTimeout)
  /\ WF_vars(FinishClear)
  /\ WF_vars(EndInvocation)

(***************************************************************************)
(* Invocations of scrapeShows in which the event loop runs the microtasks   *)
(* and the 1 ms timer of checkQueueStatus; nothing is assumed about the     *)
(* network: a fetch may stay unanswered for ever.                           *)
(***************************************************************************)
\* The continuation of `await rateLimit()` of the first call waiting for it.
Microtask ==
  \E t \in 1..(MAX_CONCURRENT_JOBS + MaxCalls) :
    \/ FetchCacheHit(t)
    \/ FetchAttempt(t)

WaitSpec ==
  /\ Init
  /\ [][Next]_vars
  /\ WF_vars(Microtask)
  /\ WF_vars(WfcDrained)
  /\ WF_vars(WfcDeadline)

(***************************************************************************)
(* The claims.                                                             *)
(***************************************************************************)
\* C1: within one invocation of scrapeShows that starts with the request
\* counter at 0, the number of network fetch attempts made through
\* fetchWithRetry (cache hits excluded, every retry counted) never exceeds
\* MAX_SUBREQUESTS.
C1_AttemptsWithinBudget ==
  (pc # "idle" /\ startCount = 0) => netAttempts <= MAX_SUBREQUESTS

\* C2: in a resumed invocation, every CrawlState the invocation saves holds,
\* in processedDates, every date of the loaded checkpoint's processedDates
\* and the day of every job that has completed in this invocation, and so
\* does processedDates once the bookkeeping is done.
SavedProcessedDatesComplete(o) ==
  o.kind = "save" =>
    (Range(PrevProcessed(previousState)) \cup o.done) \subseteq Range(o.state[1].processedDates)

C2_ProcessedDatesGrow ==
  previousState # NoState =>
    /\ \A k \in DOMAIN ops : SavedProcessedDatesComplete(ops[k])
    /\ \A k \in DOMAIN ops :
         ops[k].by = "main" =>
           (Range(PrevProcessed(previousState)) \cup ops[k].done) \subseteq Range(ops[k].processed)

\* C3: clearScraperState is called only when every date of allDatesToScrape
\* is in processedDates, getPendingJobs() is empty and the request counter
\* is below MAX_SUBREQUESTS.
C3_ClearOnlyWhenComplete ==
  \A k \in DOMAIN ops :
    ops[k].kind = "clear" =>
      /\ Range(ops[k].dates) \subseteq Range(ops[k].processed)
      /\ ops[k].pending = <<>>
      /\ ops[k].cnt < MAX_SUBREQUESTS

\* An invocation that went through several dates has cleared the checkpoint.
C3_Witness ==
  \E k \in DOMAIN ops : ops[k].kind = "clear" /\ Len(ops[k].dates) >= 2

\* C4: when an invocation has found the crawl complete, and it and its
\* timers have finished, the KV store holds no CrawlState.
C4_ClearedStaysCleared ==
  (/\ pc = "returned"
   /\ timer = "fired"
   /\ wfc = "resolved"
   /\ \E k \in DOMAIN ops : ops[k].kind = "clear")
  => kvState = NoState

\* C5: an invocation with KV storage whose cycle ends without the crawl being
\* complete saves a CrawlState with this cycle's completed dates, the
\* undrained queue entries and the current counter.
C5_IncompleteCycleSaves ==
  (/\ kvStorage
   /\ pc = "returned"
   /\ allDatesToScrape # <<>>
   /\ \A k \in DOMAIN ops : ops[k].kind # "clear")
  => \E k \in DOMAIN ops :
       /\ ops[k].kind = "save"
       /\ ops[k].by = "main"
       /\ ops[k].done \subseteq Range(ops[k].state[1].processedDates)
       /\ ops[k].state[1].pendingJobs = ops[k].pending
       /\ ops[k].state[1].subrequestCount = ops[k].cnt

\* C6: a stored CrawlState older than the freshness window is not resumed:
\* loadScraperState returns null, the counter starts at 0, date discovery
\* runs and nothing of the stored state is used.
C6_StaleStateNotResumed ==
  (pc # "idle" /\ found = "stale") =>
    /\ previousState = NoState
    /\ startCount = 0
    /\ discovery

\* An invocation that found a stale CrawlState has discovered dates and is
\* scraping them.
C6_Witness ==
  /\ found = "stale"
  /\ pc = "racing"
  /\ allDatesToScrape # <<>>

\* C7: after a fresh discovery of a date list, under repeated invocations
\* with KV storage, a source that answers every fetch and a checkpoint that
\* stays fresh, eventually every discovered date is in processedDates and
\* the checkpoint is cleared.  (A behaviour that the bound on the stored
\* show records halts is not counted against the claim.)
CrawlCleared ==
  /\ pc = "returned"
  /\ \E k \in DOMAIN ops :
       ops[k].kind = "clear" /\ Range(ops[k].dates) \subseteq Range(ops[k].processed)

ShowsBoundReached == Len(PrevShows(kvState)) > MaxShows

\* The calendar page lists no day twice.
DistinctDates == Cardinality(Range(allDatesToScrape)) = Len(allDatesToScrape)

\* Date discovery has just returned its list.
FreshDiscovery == discovery /\ pc = "racing"

C7_CrawlCompletes ==
  []DistinctDates => (FreshDiscovery ~> (CrawlCleared \/ ShowsBoundReached))

\* C8: a call of fetchWithRetry(url) for an uncached url with the counter at
\* or above MAX_SUBREQUESTS rejects with 'Subrequest limit reached', makes
\* no network attempt, starts no retry or delay, and leaves the counter and
\* the cache as they are.
C8_LimitRejectsAtOnce ==
  [][\A u \in Pages :
       (u \notin pageCache /\ subrequestCount >= MAX_SUBREQUESTS /\ HarnessCall(u))
       => /\ lastCall' = [url |-> u, outcome |-> "limit", attempts |-> 0, err |-> 0,
                          entries |-> cacheEntryCount]
          /\ UNCHANGED <<subrequestCount, pageCache, cacheEntryCount, tasks, netAttempts>>]_vars

\* A call for an uncached url has been rejected at the limit.
C8_Witness ==
  /\ lastCall.outcome = "limit"
  /\ lastCall.url \notin pageCache
  /\ subrequestCount >= MAX_SUBREQUESTS

\* C9: a call of fetchWithRetry(url) for a url in the page cache neither
\* checks nor increments the request counter: it is not rejected, whatever
\* the counter, and the counter stays as it is.
C9_CacheHitSkipsCounter ==
  [][\A u \in pageCache :
       HarnessCall(u) => /\ subrequestCount' = subrequestCount
                         /\ lastCall'.outcome # "limit"]_vars

\* C10: for an uncached url with budget available fetchWithRetry makes at
\* most MAX_RETRIES network attempts, goes on after every failure that is not
\* a budget error until then, stops at the first success, and when every
\* attempt has failed rejects with the error of the last attempt.
C10_RetryPolicy ==
  /\ \A k \in DOMAIN tasks :
       /\ tasks[k].i <= MAX_RETRIES
       /\ tasks[k].phase = "delay" => tasks[k].lastError = tasks[k].i
  /\ lastCall.outcome = "ok" => lastCall.attempts \in 1..MAX_RETRIES
  /\ lastCall.outcome = "failed" =>
       /\ lastCall.attempts = MAX_RETRIES
       /\ lastCall.err = MAX_RETRIES

\* A call has made MAX_RETRIES attempts, all failed, and has rejected.
C10_Witness ==
  /\ lastCall.outcome = "failed"
  /\ lastCall.attempts = MAX_RETRIES
  /\ lastCall.err = MAX_RETRIES

\* C11: the page cache never holds more than MAX_CACHE_ENTRIES urls, and a
\* successful fetch that finds the entry count at the maximum leaves the
\* cache holding its own entry alone.
C11_CacheBounded ==
  /\ Cardinality(pageCache) <= MAX_CACHE_ENTRIES
  /\ Cardinality(pageCache) <= cacheEntryCount
  /\ cacheEntryCount <= MAX_CACHE_ENTRIES
  /\ (lastCall.outcome = "ok" /\ lastCall.entries >= MAX_CACHE_ENTRIES)
       => (pageCache = {lastCall.url} /\ cacheEntryCount = 1)

\* A successful fetch has found the cache full and has evicted it.
C11_Witness ==
  /\ lastCall.outcome = "ok"
  /\ lastCall.entries = MAX_CACHE_ENTRIES
  /\ pageCache = {lastCall.url}

\* C12: the number of jobs in flight of a JobQueue is between 0 and
\* maxConcurrent, whatever the interleaving of add calls and of the
\* completions and failures of jobs; it is the number of jobs whose
\* processor has not returned.
C12_RunningWithinLimit ==
  /\ running \in 0..MAX_CONCURRENT_JOBS
  /\ running = Cardinality({k \in DOMAIN tasks : tasks[k].kind = "job"})

\* The limit holds a job back: one job runs, and one that was added waits
\* though the budget would let it start.
C12_Witness ==
  /\ running = MAX_CONCURRENT_JOBS
  /\ queue # <<>>
  /\ subrequestCount < MAX_SUBREQUESTS
  /\ completedJobs # <<>>

\* C13: when a job ends with a budget error ('Subrequest limit reached' or
\* 'Too many subrequests') the JobQueue starts no further job: the jobs
\* queued at that moment stay in the queue, for getPendingJobs to return.
C13_BudgetErrorStopsQueue ==
  [][\A t \in DOMAIN tasks :
       (tasks[t].kind = "job" /\ FetchTooMany(t))
       => /\ queue' = queue
          /\ \A k \in DOMAIN tasks' : tasks'[k].kind # "job"]_vars

\* C14: waitForCompletion always resolves, also when a running job never
\* finishes (or the invocation ends first, its race being lost), and when it
\* resolves the race scrapeShows gets the records accumulated so far and the
\* jobs not yet started are the pending jobs of the bookkeeping.
C14_WaitResolves ==
  /\ (wfc = "polling") ~> (wfc = "resolved" \/ pc = "idle")
  /\ [][(wfc = "polling" /\ wfc' = "resolved" /\ pc = "racing")
         => /\ ret' = PrevShows(previousState) \o results
            /\ queue' = queue
            /\ queue # <<>> => ops'[Len(ops')].pending = queue]_vars

\* The wait has resolved at its deadline, before the timer of scrapeShows,
\* with one job running and another not yet started.
C14_Witness ==
  /\ wfc = "resolved"
  /\ timer = "pending"
  /\ running > 0
  /\ queue # <<>>
  /\ ops # <<>> /\ ops[Len(ops)].pending = queue

\* C15: once the wait is over (scrapeShows is past the race), the completion
\* of a job that was still in flight changes neither the records scrapeShows
\* returns, nor the saved checkpoint, nor the stored seen ids.
C15_LateCompletionDiscarded ==
  [][(/\ pc \in {"clearing", "returned"}
      /\ \E t \in DOMAIN tasks :
           /\ tasks[t].kind = "job"
           /\ FetchOk(t) \/ FetchCacheHit(t))
     => /\ ret' = ret
        /\ kvState' = kvState
        /\ kvShows' = kvShows]_vars

\* C16: no checkpoint saved by scrapeShows, by the bookkeeping or by the
\* timeout callback, has a date that is in processedDates and is also the
\* day of one of its pendingJobs.
C16_ProcessedNotPending ==
  \A i \in DOMAIN ops :
    ops[i].kind = "save"
    => Range(ops[i].state[1].processedDates)
         \cap Range(JobDays(ops[i].state[1].pendingJobs)) = {}

\* C17: one invocation of scrapeShows issues at most one write (put or
\* delete) of the checkpoint key.
C17_OneCheckpointWrite ==
  Cardinality({i \in DOMAIN ops : ops[i].kind \in {"save", "clear"}}) <= 1

\* C18: saveScraperState, loadScraperState, clearScraperState, showExists and
\* saveShow never raise to their caller; when the KV operation throws or the
\* stored checkpoint is not JSON, loadScraperState returns null (scrapeShows
\* has no previous state) and showExists returns false.
C18_KvNeverRaises ==
  /\ ~kvCall.raised
  /\ (kvCall.method = "loadScraperState" /\ kvCall.kv \in {"throws", "malformed"})
       => (kvCall.value = NoState /\ previousState = NoState)
  /\ (kvCall.method = "showExists" /\ kvCall.kv = "throws") => kvCall.value = FALSE

\* A checkpoint is stored, the get of loadScraperState has thrown, and the
\* caller has no previous state.
C18_Witness ==
  /\ kvCall.method = "loadScraperState"
  /\ kvCall.kv = "throws"
  /\ ~kvCall.raised
  /\ kvState # NoState /\ ~IsMalformed(kvState[1])
  /\ previousState = NoState

\* C19: with KV storage and no fresh checkpoint, once findDatesWithEvents
\* has returned a non-empty list and the day-page jobs are started, the
\* invocation has saved a checkpoint holding the discovered dates.
C19_DatesSavedBeforeJobs ==
  (kvStorage /\ discovery /\ pc = "racing" /\ allDatesToScrape # <<>>)
  => \E i \in DOMAIN ops :
       /\ ops[i].kind = "save"
       /\ ops[i].state[1].allDatesToScrape = allDatesToScrape

\* C20: the records scrapeShows returns, and the completedShows of every
\* checkpoint it saves, hold at most one record per id.
C20_OneRecordPerId ==
  /\ pc \in {"clearing", "returned"} => Cardinality(Range(ret)) = Len(ret)
  /\ \A i \in DOMAIN ops :
       ops[i].kind = "save"
       => Cardinality(Range(ops[i].state[1].completedShows))
            = Len(ops[i].state[1].completedShows)

C22_DatesDistinct ==
  discovery => Cardinality(Range(allDatesToScrape)) = Len(allDatesToScrape)

\* C23: findDatesWithEvents returns at most MAX_EVENTS dates in ascending
\* order, and an invocation makes at most one fetchWithRetry call for it,
\* for the calendar page of the start date.
C23_DiscoveryBounded ==
  /\ [](discovery => /\ Len(allDatesToScrape) <= MAX_EVENTS
                     /\ \A k \in 1..(Len(allDatesToScrape) - 1) :
                          allDatesToScrape[k] <= allDatesToScrape[k + 1])
  /\ [](\A k \in DOMAIN tasks :
          tasks[k].kind = "disc"
          => /\ pc = "discovering"
             /\ tasks[k].url = Url(Today)
             /\ \A j \in DOMAIN tasks : tasks[j].kind = "disc" => j = k)
  /\ [][((\E k \in DOMAIN tasks' : tasks'[k].kind = "disc")
          /\ ~(\E k \in DOMAIN tasks : tasks[k].kind = "disc"))
         => pc = "idle"]_vars

\* Discovery has returned as many dates as it may, and the jobs run.
C23_Witness ==
  /\ discovery
  /\ pc = "racing"
  /\ Len(allDatesToScrape) = MAX_EVENTS
  /\ allDatesToScrape[1] < allDatesToScrape[MAX_EVENTS]

ValidListings(doc) == SelectSeq(doc, LAMBDA node : node.title # 0 /\ node.url # 0)

\* C25: parseShowsFromHtml never raises and returns exactly one record, in
\* document order, for each listing that has a non-empty title and url.
C25_OneRecordPerListing ==
  parseCall.outcome \in {"returned", "raised"}
  => /\ parseCall.outcome = "returned"
     /\ Len(parseCall.shows) = Len(ValidListings(parseCall.doc))
     /\ \A k \in DOMAIN parseCall.shows :
          /\ parseCall.shows[k].title = ValidListings(parseCall.doc)[k].title
          /\ parseCall.shows[k].url = ValidListings(parseCall.doc)[k].url

\* C26: parsing the same document for the same day at a later time gives
\* the same set of ids and of content hashes, and every record has a
\* content hash.
C26_SameDocumentSameRecords ==
  parseCall.outcome = "again"
  => /\ {parseCall.shows[k].id : k \in DOMAIN parseCall.shows}
          = {parseCall.first[k].id : k \in DOMAIN parseCall.first}
     /\ {parseCall.shows[k].contentHash : k \in DOMAIN parseCall.shows}
          = {parseCall.first[k].contentHash : k \in DOMAIN parseCall.first}
     /\ \A k \in DOMAIN parseCall.shows : parseCall.shows[k].contentHash # NoHash

\* C27: createShowId of a record's url and datetime is the id the record
\* got when it was built, and a record whose title, sold-out flag or ticket
\* link has changed has the same id and another content hash.
C27_IdStableHashChanges ==
  parseCall.outcome = "rehashed"
  => /\ ~parseCall.a.id.raised
     /\ parseCall.a.id.value = parseCall.a.show.id
     /\ parseCall.b.id = parseCall.a.id
     /\ parseCall.b.hash # parseCall.a.hash

\* A record and the same record with another title have been hashed.
C27_Witness ==
  /\ parseCall.outcome = "rehashed"
  /\ parseCall.a.show.title # parseCall.b.show.title
  /\ parseCall.a.show.soldOut = parseCall.b.show.soldOut
  /\ parseCall.b.id = parseCall.a.id

\* C28: the scheduled handler passes to insert and notifies only ids that were
\* absent from the catalog when the run started, and each such id at most
\* once in the run, whatever list scrapeShows returned.
InsertedIds(run) == UNION {Range(run.inserts[k].batch) : k \in DOMAIN run.inserts}

C28_NewIdsOnce ==
  sched.phase = "done" =>
    /\ InsertedIds(sched) \cap sched.catalog0 = {}
    /\ \A k \in DOMAIN sched.sent : sched.sent[k].id \notin sched.catalog0
    /\ \A k \in DOMAIN sched.inserts :
         Cardinality(Range(sched.inserts[k].batch)) = Len(sched.inserts[k].batch)
    /\ \A j, k \in DOMAIN sched.sent : sched.sent[j].id = sched.sent[k].id => j = k

\* C29: a failed notification does not stop the run: every new show within
\* the notification limit gets its attempt, in order, whatever the outcome
\* of the attempts before it, the summary message is attempted when shows
\* remain past the limit, and no exception leaves the handler.
Attempted(run) == [k \in DOMAIN run.sent |-> run.sent[k].id]

C29_FailedSendIsolated ==
  sched # NoRun =>
    /\ ~sched.raised
    /\ (sched.phase = "done" /\ sched.telegram /\ sched.newShows # <<>>) =>
         /\ Attempted(sched) = Slice(sched.newShows, 0, MAX_NOTIFICATIONS)
         /\ Len(sched.newShows) > MAX_NOTIFICATIONS <=> sched.summary # "none"
    /\ (sched.phase = "notified" /\ sched.listed) =>
         Attempted(sched) = sched.subscribers

C29_Witness ==
  /\ sched.phase = "done"
  /\ Len(sched.sent) = MAX_NOTIFICATIONS
  /\ ~sched.sent[1].ok
  /\ sched.sent[2].ok
  /\ ~sched.sent[MAX_NOTIFICATIONS].ok
  /\ sched.summary = "sent"

\* C30: when the month crawler returns and every catalog operation of the
\* run succeeded, the catalog holds, under the id of every returned show, a
\* row with that show's title and dates.
C30_ReturnedShowsStored ==
  (sched.phase = "returned" /\ sched.opsOk) =>
    \A k \in DOMAIN sched.allShows :
      sched.catalog[sched.allShows[k].id] =
        [title |-> sched.allShows[k].title, dates |-> sched.allShows[k].dates]

\* C31: with no pending jobs carried over, the jobs an invocation enqueues
\* are, in list order, leading dates of allDatesToScrape without the dates of
\* processedDates: at most CHUNK_SIZE jobs, none for a processed date.
EnqueuedDays(ts, q) == [k \in DOMAIN ts |-> ts[k].day] \o JobDays(q)

Unprocessed(dates, processed) == SelectSeq(dates, LAMBDA d : d \notin Range(processed))

C31_ChunkOfUnprocessedDates ==
  [][(timer # "pending" /\ timer' = "pending" /\ PrevPending(previousState') = <<>>) =>
       LET enq  == EnqueuedDays(tasks', queue')
           todo == Unprocessed(allDatesToScrape', PrevProcessed(previousState'))
       IN  /\ Len(enq) <= CHUNK_SIZE
           /\ Len(enq) <= Len(todo)
           /\ enq = SubSeq(todo, 1, Len(enq))
           /\ Range(enq) \cap Range(PrevProcessed(previousState')) = {}]_vars

C31_Witness ==
  /\ pc = "racing"
  /\ PrevProcessed(previousState) # <<>>
  /\ PrevPending(previousState) = <<>>
  /\ Len(tasks) = 1
  /\ tasks[1].kind = "job"
  /\ tasks[1].day \notin Range(PrevProcessed(previousState))
  /\ tasks[1].day # allDatesToScrape[1]

\* C32: scrapeShows starts with the counter at the subrequestCount of the
\* fresh checkpoint it loaded, or at 0 when there is none (the synchronous
\* head of the first fetchWithRetry call may already have passed rateLimit
\* once), and until the invocation ends the counter never decreases.
CheckpointCount ==
  IF kvStorage /\ kvState # NoState /\ kvState[1].ageHours <= FRESH_HOURS
  THEN kvState[1].subrequestCount ELSE 0

C32_CounterRestoredThenGrows ==
  /\ [][(pc = "idle" /\ pc' # "idle") =>
          /\ startCount' = CheckpointCount
          /\ subrequestCount' \in {CheckpointCount, CheckpointCount + 1}
          /\ subrequestCount' = CheckpointCount + Len(SelectSeq(tasks', LAMBDA x : x.phase = "cache"))]_vars
  /\ [][(pc # "idle" /\ pc' # "idle") => subrequestCount' >= subrequestCount]_vars

C32_Witness ==
  /\ pc = "racing"
  /\ found = "fresh"
  /\ startCount > 0
  /\ subrequestCount > startCount + 1

\* C33: an invocation that loaded a fresh checkpoint with a non-empty
\* allDatesToScrape never calls findDatesWithEvents, and every state it
\* saves carries the loaded allDatesToScrape.
LoadedDates == previousState # NoState /\ Len(previousState[1].allDatesToScrape) > 0

C33_LoadedDatesKept ==
  /\ [](LoadedDates =>
          /\ ~discovery
          /\ \A k \in DOMAIN tasks : tasks[k].kind # "disc"
          /\ \A k \in DOMAIN ops :
               ops[k].kind = "save" =>
                 ops[k].state[1].allDatesToScrape = previousState[1].allDatesToScrape)
  /\ [][(LoadedDates /\ pc # "idle" /\ kvState' # kvState /\ kvState' # NoState) =>
          kvState'[1].allDatesToScrape = previousState[1].allDatesToScrape]_vars

C33_Witness ==
  /\ pc = "returned"
  /\ LoadedDates
  /\ \E j, k \in DOMAIN ops :
       /\ ops[j].kind = "save" /\ ops[j].by = "timer"
       /\ ops[k].kind = "save" /\ ops[k].by = "main"
  /\ kvState # NoState
  /\ kvState[1].processedDates # previousState[1].processedDates

\* C34: the JobQueue starts jobs in the order they were added: a job that
\* starts is the oldest one waiting, and the jobs of a freshly selected chunk
\* are added, and so started, in ascending date order.
StartedJobs(ts) == SelectSeq(ts, LAMBDA x : x.kind = "job" /\ x.phase = "cache" /\ x.i = 0)

C34_StartsInAddOrder ==
  /\ [][(StartedJobs(tasks') # <<>> /\ StartedJobs(tasks) = <<>>) =>
          /\ Len(StartedJobs(tasks')) = 1
          /\ IF queue # <<>>
               THEN /\ StartedJobs(tasks')[1].day = Head(queue).day
                    /\ Tail(queue) = SubSeq(queue', 1, Len(queue) - 1)
               ELSE \A k \in DOMAIN queue' : StartedJobs(tasks')[1].day <= queue'[k].day]_vars
  /\ [][(queue = <<>> /\ running = 0 /\ completedJobs = <<>>) =>
          \A j, k \in DOMAIN queue' : j < k => queue'[j].day <= queue'[k].day]_vars

C34_Witness ==
  /\ StartedJobs(tasks) # <<>>
  /\ completedJobs # <<>>
  /\ queue # <<>>
  /\ StartedJobs(tasks)[1].day < queue[1].day
  /\ completedJobs[1].day <= StartedJobs(tasks)[1].day

\* C35: once the jobs of an invocation are added, every one of them stays in
\* exactly one of the queue, the jobs in flight and the completed list: for
\* each day the number of its jobs over the three places never changes.
JobsInFlight(ts) == SelectSeq(ts, LAMBDA x : x.kind = "job")

JobsFor(d, q, ts, cj) ==
  Len(SelectSeq(q, LAMBDA j : j.day = d))
    + Len(SelectSeq(JobsInFlight(ts), LAMBDA x : x.day = d))
    + Len(SelectSeq(cj, LAMBDA j : j.day = d))

C35_JobsConserved ==
  [][(timer # "unset" /\ timer' # "unset") =>
       \A d \in Days :
         JobsFor(d, queue', tasks', completedJobs') = JobsFor(d, queue, tasks, completedJobs)]_vars

\* C36: a date enters processedDates only through a job that finished, and a
\* job is recorded as finished only when its fetch ended without a budget
\* error: with the page (from the network or the cache) or with the error
\* thrown after all retries.
C36_ProcessedMeansNoBudgetError ==
  /\ [][(pc # "idle" /\ pc' # "idle") =>
          Range(processedDates') \ Range(processedDates) \subseteq Range(JobDays(completedJobs'))]_vars
  /\ [][Len(completedJobs') > Len(completedJobs) =>
          lastCall'.outcome \in {"ok", "hit", "failed"}]_vars

\* C37: once waitForCompletion has returned with jobs still queued, the
\* JobQueue takes no further job from the queue during the invocation, and no
\* job that a saved state lists in pendingJobs is started by the invocation
\* that saved it.
C37_NoStartAfterDeadline ==
  /\ [][(wfc = "resolved" /\ queue # <<>> /\ pc' # "idle") => queue' = queue]_vars
  /\ [][((\E k \in DOMAIN ops : ops[k].kind = "save" /\ ops[k].pending = queue)
          /\ queue # <<>> /\ pc' # "idle") => queue' = queue]_vars

\* C38: with KV storage, every id the invocation marks in the Seen-ID index
\* is delivered or checkpointed: the ids marked before the race is decided
\* are in the list scrapeShows returns, and an id is marked after that only
\* while the timeout callback, the one save that can still take it into a
\* checkpoint, is yet to run.
C38_SeenIsDeliveredOrSaved ==
  /\ [][(kvStorage /\ pc = "racing" /\ pc' # "racing") =>
          Range(results') \subseteq Range(ret')]_vars
  /\ [][(kvStorage /\ kvShows' # kvShows /\ pc # "racing") => timer = "pending"]_vars

\* C39: during an invocation the counter exceeds its value at the start of
\* the invocation by the number of network attempts made so far.
C39_CounterCountsAttempts ==
  pc # "idle" => subrequestCount - startCount = netAttempts

\* C40: an invocation that loaded a fresh checkpoint with the counter at or
\* above MAX_SUBREQUESTS and with completedShows not empty returns those
\* shows, and until it ends makes no fetch, adds no job, and leaves the
\* checkpoint as it found it.
LoadedAtLimit ==
  /\ pc # "idle"
  /\ previousState # NoState
  /\ previousState[1].subrequestCount >= MAX_SUBREQUESTS
  /\ Len(previousState[1].completedShows) > 0

C40_EarlyReturnTouchesNothing ==
  LoadedAtLimit =>
    /\ pc = "returned"
    /\ ret = previousState[1].completedShows
    /\ tasks = <<>> /\ netAttempts = 0 /\ subrequestCount = previousState[1].subrequestCount
    /\ queue = <<>> /\ running = 0 /\ completedJobs = <<>>
    /\ timer = "unset"
    /\ ops = <<>>
    /\ kvState # NoState
    /\ [kvState[1] EXCEPT !.ageHours = 0] = previousState[1]

C40_Witness ==
  /\ LoadedAtLimit
  /\ found = "fresh"
  /\ kvState[1].ageHours > 0
  /\ kvState[1].pendingJobs # <<>>

====
